---- MODULE Spec2Model ----
(***************************************************************************)
(* Elliptic-curve precompile event constructors of the executor            *)
(* (crates/core/executor/src/events/precompiles/ec.rs): create_ec_add_event,*)
(* create_ec_double_event and create_ec_decompress_event, together with    *)
(* the memory records and the local-memory-access reconciliation they      *)
(* perform on the runtime (rt.rt.local_memory_access, the ambient log, and *)
(* rt.rt.record.local_memory_access, the global trace list).               *)
(*                                                                         *)
(* Each constructor is a straight-line procedure; it is modelled as the    *)
(* sequence of its steps (entry checks, forward loop, recorded read, drain *)
(* loop, arithmetic, forward loop, recorded write, drain loop, return), so *)
(* that the state at every panic site is a state of the model.             *)
(*                                                                         *)
(* The memory primitives (mr_slice, mw_slice, slice_unsafe), the word/byte *)
(* conversions and the curve arithmetic live outside ec.rs; they are       *)
(* modelled from their contract.  The curve is a scaled-down short         *)
(* Weierstrass curve y^2 = x^3 + 7 over a small prime field, with field    *)
(* elements of NumLimbs bytes.                                             *)
(*                                                                         *)
(* The last part models VerifyingKeyVariable::hash and observe_into of the *)
(* recursion circuit (crates/recursion/circuit-v2/src/types.rs) as         *)
(* functions of the key, over a scaled-down two-adic field.                *)
(***************************************************************************)
EXTENDS Integers, Sequences, FiniteSets, TLC

VARIABLES
    mem,                        \* memory: address -> [value, timestamp]
    clk,                        \* rt.clk
    local_memory_access,        \* rt.rt.local_memory_access: address -> entry
    record_local_memory_access, \* rt.rt.record.local_memory_access (global trace list)
    events,                     \* events returned to the interpreter, in order
    pc,                         \* position of the running constructor
    frame,                      \* locals of the running constructor
    entry,                      \* memory, log, trace and clock at the entry of the call
    panic_msg,                  \* message of the panic that ended the process
    next_id,                    \* identity given to the next MemoryLocalEvent object
    unconstrained,              \* the memory subsystem records no local accesses
    touches,                    \* interpreter loads/stores executed so far
    vk,                         \* the VerifyingKeyVariable (self of hash, observe_into)
    inputs,                     \* the elements hash has handed to SC::hash
    challenger,                 \* the elements the challenger has observed, in order
    vk_done                     \* the methods of the verifying key that have run

vars == <<mem, clk, local_memory_access, record_local_memory_access, events, pc,
          frame, entry, panic_msg, next_id, unconstrained, touches,
          vk, inputs, challenger, vk_done>>

\* the state of the verifier circuit
vkvars == <<vk, inputs, challenger, vk_done>>

\* the state of the executor
execvars == <<mem, clk, local_memory_access, record_local_memory_access, events, pc,
              frame, entry, panic_msg, next_id, unconstrained, touches>>

----------------------------------------------------------------------------
(* Bounds of the model                                                     *)

\* interpreter loads/stores that precede the syscall
MaxTouches == 2

(* Curve parameters (scaled down)                                          *)

\* <E::BaseField as NumLimbs>::Limbs::USIZE: bytes of a field element
NumLimbs == 8

\* <E::BaseField as NumWords>::WordsCurvePoint::USIZE: words of a point
NumWordsCurvePoint == 2 * (NumLimbs \div 4)

\* modulus of the base field
FieldModulus == 1019

\* y^2 = x^3 + CurveB
CurveB == 7

\* E::CURVE_TYPE of the curves a constructor is instantiated with
CurveTypes == {"Secp256k1", "Bls12381", "Bn254"}

\* the word addresses of the modelled memory
Addrs == {4 * i : i \in 0..7}

\* pointer arguments handed to the syscalls: field-element aligned ones, and
\* two that are not 4-byte aligned
AlignedPtrs == {0, 8, 16}
MisalignedPtrs == {2, 9}
PtrArgs == AlignedPtrs \cup MisalignedPtrs

\* sign_bit arguments
SignArgs == {0, 1, 2}

\* the memory image at start: P = (5, 344) at 0, Q = (259, 6) at 16
InitWords == <<5, 0, 344, 0, 259, 0, 6, 0>>

\* addresses of the interpreter's loads, and address and value of its stores
TouchAddrs == {8, 20}
StoreAddrs == {8}
StoreValues == {11}

----------------------------------------------------------------------------
(* Sequences                                                               *)

Last(s) == s[Len(s)]

RECURSIVE Reverse(_)
Reverse(s) == IF s = <<>> THEN <<>> ELSE Reverse(Tail(s)) \o <<Head(s)>>

\* Vec::resize(n, 0)
Resize(s, n) ==
    IF Len(s) >= n THEN SubSeq(s, 1, n)
    ELSE s \o [i \in 1..(n - Len(s)) |-> 0]

\* the addresses ptr + i*4, i in 0..n
SpanSeq(ptr, n) == [i \in 1..n |-> ptr + (i - 1) * 4]
SpanSet(ptr, n) == {ptr + (i - 1) * 4 : i \in 1..n}

----------------------------------------------------------------------------
(* Words and bytes (sp1_primitives::consts, num_bigint)                    *)

\* u32::to_le_bytes
WordToBytesLE(w) ==
    <<w % 256, (w \div 256) % 256, (w \div 65536) % 256, (w \div 16777216) % 256>>

\* words_to_bytes_le_vec
RECURSIVE words_to_bytes_le_vec(_)
words_to_bytes_le_vec(ws) ==
    IF ws = <<>> THEN <<>>
    ELSE WordToBytesLE(Head(ws)) \o words_to_bytes_le_vec(Tail(ws))

\* u32::from_le_bytes
WordFromBytesLE(b) == b[1] + 256 * (b[2] + 256 * (b[3] + 256 * b[4]))

\* bytes_to_words_le_vec: chunks_exact(4), a shorter tail is dropped
bytes_to_words_le_vec(bs) ==
    [i \in 1..(Len(bs) \div 4) |-> WordFromBytesLE(SubSeq(bs, 4 * i - 3, 4 * i))]

\* BigUint::from_bytes_le
RECURSIVE from_bytes_le(_)
from_bytes_le(bs) ==
    IF bs = <<>> THEN 0 ELSE Head(bs) + 256 * from_bytes_le(Tail(bs))

\* BigUint::from_bytes_be
from_bytes_be(bs) == from_bytes_le(Reverse(bs))

\* BigUint::to_bytes_le: the minimal little-endian bytes, [0] for zero
RECURSIVE to_bytes_le(_)
to_bytes_le(n) ==
    IF n < 256 THEN <<n>> ELSE <<n % 256>> \o to_bytes_le(n \div 256)

----------------------------------------------------------------------------
(* Curve arithmetic (sp1_curves)                                           *)

RECURSIVE ModPow(_, _)
ModPow(b, e) ==
    IF e = 0 THEN 1
    ELSE LET h == ModPow(b, e \div 2)
             s == (h * h) % FieldModulus
         IN  IF e % 2 = 1 THEN (s * (b % FieldModulus)) % FieldModulus ELSE s

\* the inverse by Fermat's little theorem; 0 for 0
ModInv(a) == ModPow(a, FieldModulus - 2)

\* AffinePoint::from_words_le: x is the first half of the words, y the second
from_words_le(ws) ==
    LET h == Len(ws) \div 2
    IN  [x |-> from_bytes_le(words_to_bytes_le_vec(SubSeq(ws, 1, h))),
         y |-> from_bytes_le(words_to_bytes_le_vec(SubSeq(ws, h + 1, Len(ws))))]

\* AffinePoint::to_words_le: each coordinate resized to half the point's bytes
to_words_le(pt) ==
    bytes_to_words_le_vec(Resize(to_bytes_le(pt.x), (NumWordsCurvePoint * 4) \div 2))
    \o bytes_to_words_le_vec(Resize(to_bytes_le(pt.y), (NumWordsCurvePoint * 4) \div 2))

\* p + q: the affine chord formula, no doubling case
ec_add(p, q) ==
    LET m     == FieldModulus
        slope == ((m + q.y - p.y) * ModInv((m + q.x - p.x) % m)) % m
        x3    == (slope * slope + m + m - p.x - q.x) % m
        y3    == (slope * (m + p.x - x3) + m - p.y) % m
    IN  [x |-> x3, y |-> y3]

\* E::ec_double: the tangent formula (a = 0)
ec_double(p) ==
    LET m     == FieldModulus
        slope == (((3 * p.x * p.x) % m) * ModInv((2 * p.y) % m)) % m
        x3    == (slope * slope + m + m - p.x - p.x) % m
        y3    == (slope * (m + p.x - x3) + m - p.y) % m
    IN  [x |-> x3, y |-> y3]

\* the square root of x^3 + b with the parity sign_bit asks for
DecompressY(x, sign_bit) ==
    LET m   == FieldModulus
        rhs == (((x * x) % m) * x + CurveB) % m
        r   == ModPow(rhs, (m + 1) \div 4)
    IN  IF r % 2 = sign_bit THEN r ELSE (m - r) % m

\* whether x is the abscissa of a point of the curve
IsOnCurveX(x) ==
    LET m   == FieldModulus
        rhs == (((x * x) % m) * x + CurveB) % m
        r   == ModPow(rhs, (m + 1) \div 4)
    IN  (r * r) % m = rhs

\* secp256k1_decompress / bls12381_decompress: big-endian x bytes and a sign bit
decompress_fn(x_bytes_be, sign_bit) ==
    LET x == from_bytes_be(x_bytes_be)
    IN  [x |-> x, y |-> DecompressY(x, sign_bit)]

----------------------------------------------------------------------------
(* Memory primitives of the syscall context (SyscallContext, Executor)     *)

\* removal of a key of a map
MapRemove(m, k) == [a \in (DOMAIN m) \ {k} |-> m[a]]

\* the current record of an address: MemoryRecord { value, timestamp }
MemoryRecord(v, t) == [value |-> v, timestamp |-> t]

\* the executor's bookkeeping of one access: the address's entry of the ambient
\* log is created with the previous record as its initial access when there is
\* none, and its final access becomes the new record; nothing is recorded in an
\* unconstrained block
RecordLocal(log, nid, addr, prev, cur, unc) ==
    IF unc THEN log
    ELSE IF addr \in DOMAIN log
         THEN [log EXCEPT ![addr].final_mem_access = cur]
         ELSE log @@ (addr :> [id |-> nid, addr |-> addr,
                               initial_mem_access |-> prev,
                               final_mem_access |-> cur])

\* next identity after the access
IdAfter(log, nid, addr, unc) ==
    IF unc \/ addr \in DOMAIN log THEN nid ELSE nid + 1

\* SyscallContext::slice_unsafe: the values, with no record made
slice_unsafe(m, addr, len) == [i \in 1..len |-> m[addr + (i - 1) * 4].value]

\* SyscallContext::mr_slice: one recorded read per word, ascending addresses;
\* st = [mem, log, next_id, records, values]
RECURSIVE MrLoop(_, _, _, _)
MrLoop(st, addrs, t, unc) ==
    IF addrs = <<>> THEN st
    ELSE LET a    == Head(addrs)
             prev == st.mem[a]
             cur  == MemoryRecord(prev.value, t)
             rec  == [value |-> prev.value, timestamp |-> t,
                      prev_timestamp |-> prev.timestamp]
         IN  MrLoop([mem     |-> [st.mem EXCEPT ![a] = cur],
                     log     |-> RecordLocal(st.log, st.next_id, a, prev, cur, unc),
                     next_id |-> IdAfter(st.log, st.next_id, a, unc),
                     records |-> Append(st.records, rec),
                     values  |-> Append(st.values, prev.value)],
                    Tail(addrs), t, unc)

mr_slice(m, log, nid, addr, len, t, unc) ==
    MrLoop([mem |-> m, log |-> log, next_id |-> nid, records |-> <<>>, values |-> <<>>],
           SpanSeq(addr, len), t, unc)

\* SyscallContext::mw_slice: one recorded write per word of values
RECURSIVE MwLoop(_, _, _, _, _)
MwLoop(st, addrs, values, t, unc) ==
    IF addrs = <<>> THEN st
    ELSE LET a    == Head(addrs)
             prev == st.mem[a]
             cur  == MemoryRecord(Head(values), t)
             rec  == [value |-> Head(values), timestamp |-> t,
                      prev_value |-> prev.value,
                      prev_timestamp |-> prev.timestamp]
         IN  MwLoop([mem     |-> [st.mem EXCEPT ![a] = cur],
                     log     |-> RecordLocal(st.log, st.next_id, a, prev, cur, unc),
                     next_id |-> IdAfter(st.log, st.next_id, a, unc),
                     records |-> Append(st.records, rec)],
                    Tail(addrs), Tail(values), t, unc)

mw_slice(m, log, nid, addr, values, t, unc) ==
    MwLoop([mem |-> m, log |-> log, next_id |-> nid, records |-> <<>>],
           SpanSeq(addr, Len(values)), values, t, unc)

----------------------------------------------------------------------------
(* The two loops every constructor runs around a recorded access           *)

\* ForwardLoop pushing a copy of the entry and leaving the entry in the log
RECURSIVE ForwardLoopKeep(_, _, _)
ForwardLoopKeep(log, trace, addrs) ==
    IF addrs = <<>> THEN [log |-> log, trace |-> trace]
    ELSE LET a == Head(addrs)
         IN  IF a \in DOMAIN log
             THEN ForwardLoopKeep(log, Append(trace, log[a]), Tail(addrs))
             ELSE ForwardLoopKeep(log, trace, Tail(addrs))

\* ForwardLoop putting the entry at the front of the global trace list
RECURSIVE ForwardLoopFront(_, _, _)
ForwardLoopFront(log, trace, addrs) ==
    IF addrs = <<>> THEN [log |-> log, trace |-> trace]
    ELSE LET a == Head(addrs)
         IN  IF a \in DOMAIN log
             THEN ForwardLoopFront(MapRemove(log, a), <<log[a]>> \o trace, Tail(addrs))
             ELSE ForwardLoopFront(log, trace, Tail(addrs))

\* for i in 0..n { if let Some(e) = local_memory_access.remove(&addr)
\*                  { record.local_memory_access.push(e) } }
RECURSIVE ForwardLoop(_, _, _)
ForwardLoop(log, trace, addrs) ==
    IF addrs = <<>> THEN [log |-> log, trace |-> trace]
    ELSE LET a == Head(addrs)
         IN  IF a \in DOMAIN log
             THEN ForwardLoop(MapRemove(log, a), Append(trace, log[a]), Tail(addrs))
             ELSE ForwardLoop(log, trace, Tail(addrs))

\* DrainLoop going on to the next address when the log holds no entry
RECURSIVE DrainLoopSkip(_, _, _)
DrainLoopSkip(log, acc, addrs) ==
    IF addrs = <<>> THEN [log |-> log, acc |-> acc, ok |-> TRUE]
    ELSE LET a == Head(addrs)
         IN  IF a \in DOMAIN log
             THEN DrainLoopSkip(MapRemove(log, a), Append(acc, log[a]), Tail(addrs))
             ELSE DrainLoopSkip(log, acc, Tail(addrs))

\* DrainLoop reading the entry without removing it from the log
RECURSIVE DrainLoopKeep(_, _, _)
DrainLoopKeep(log, acc, addrs) ==
    IF addrs = <<>> THEN [log |-> log, acc |-> acc, ok |-> TRUE]
    ELSE LET a == Head(addrs)
         IN  IF a \in DOMAIN log
             THEN DrainLoopKeep(log, Append(acc, log[a]), Tail(addrs))
             ELSE [log |-> log, acc |-> acc, ok |-> FALSE]

\* for i in 0..n { acc.push(local_memory_access.remove(&addr)
\*                            .expect("Expected local memory access")) }
\* ok is FALSE when the expect failed; the loop stops there
RECURSIVE DrainLoop(_, _, _)
DrainLoop(log, acc, addrs) ==
    IF addrs = <<>> THEN [log |-> log, acc |-> acc, ok |-> TRUE]
    ELSE LET a == Head(addrs)
         IN  IF a \in DOMAIN log
             THEN DrainLoop(MapRemove(log, a), Append(acc, log[a]), Tail(addrs))
             ELSE [log |-> log, acc |-> acc, ok |-> FALSE]

----------------------------------------------------------------------------
(* The process                                                             *)

NoFrame == [op |-> "none"]

\* no verifying key is at hand
NoKey == [commitment |-> <<>>, pc_start |-> 0, chip_information |-> <<>>]

Snapshot ==
    [mem |-> mem, clk |-> clk, log |-> local_memory_access,
     trace |-> record_local_memory_access, events |-> events, next_id |-> next_id]

\* the executor before the syscall
ExecInit ==
    /\ mem = [a \in Addrs |-> MemoryRecord(InitWords[(a \div 4) + 1], 0)]
    /\ clk = 1
    /\ local_memory_access = << >>
    /\ record_local_memory_access = <<>>
    /\ events = <<>>
    /\ pc = "idle"
    /\ frame = NoFrame
    /\ panic_msg = ""
    /\ next_id = 0
    /\ unconstrained \in BOOLEAN
    /\ touches = 0
    /\ entry = Snapshot

Init ==
    /\ ExecInit
    /\ vk = NoKey
    /\ inputs = <<>>
    /\ challenger = <<>>
    /\ vk_done = {}

\* panic!: the process ends; memory, log and trace stay as they are
Panic(msg) ==
    /\ pc' = "panicked"
    /\ panic_msg' = msg

\* an interpreter load of addr at the current clock
TouchRead(addr) ==
    /\ pc = "idle"
    /\ touches < MaxTouches
    /\ LET r == mr_slice(mem, local_memory_access, next_id, addr, 1, clk, unconstrained)
       IN  /\ mem' = r.mem
           /\ local_memory_access' = r.log
           /\ next_id' = r.next_id
    /\ clk' = clk + 1
    /\ touches' = touches + 1
    /\ UNCHANGED <<record_local_memory_access, events, pc, frame, entry, panic_msg,
                   unconstrained>>
    /\ UNCHANGED vkvars

\* an interpreter store of value to addr at the current clock
TouchWrite(addr, value) ==
    /\ pc = "idle"
    /\ touches < MaxTouches
    /\ LET r == mw_slice(mem, local_memory_access, next_id, addr, <<value>>, clk,
                         unconstrained)
       IN  /\ mem' = r.mem
           /\ local_memory_access' = r.log
           /\ next_id' = r.next_id
    /\ clk' = clk + 1
    /\ touches' = touches + 1
    /\ UNCHANGED <<record_local_memory_access, events, pc, frame, entry, panic_msg,
                   unconstrained>>
    /\ UNCHANGED vkvars

----------------------------------------------------------------------------
(* create_ec_add_event                                                     *)

\* AddAligned without the check of q_ptr
AddAlignedPOnly(arg1, arg2) == arg1 % 4 = 0

\* the two alignment checks at the entry
AddAligned(arg1, arg2) == arg1 % 4 = 0 /\ arg2 % 4 = 0

\* let start_clk = rt.clk; the alignment checks; p = rt.slice_unsafe(p_ptr, num_words)
AddEnter(E, arg1, arg2) ==
    /\ pc = "idle"
    /\ entry' = Snapshot
    /\ IF AddAligned(arg1, arg2)
       THEN /\ frame' = [op |-> "add", E |-> E, start_clk |-> clk,
                         p_ptr |-> arg1, q_ptr |-> arg2,
                         p |-> slice_unsafe(mem, arg1, NumWordsCurvePoint),
                         q |-> <<>>, q_memory_records |-> <<>>,
                         p_memory_records |-> <<>>, result_words |-> <<>>,
                         local_mem_access |-> <<>>]
            /\ pc' = "add_forward_q"
            /\ UNCHANGED panic_msg
       ELSE /\ frame' = [op |-> "add", E |-> E, start_clk |-> clk,
                         p_ptr |-> arg1, q_ptr |-> arg2]
            /\ Panic("explicit panic")
    /\ UNCHANGED <<mem, clk, local_memory_access, record_local_memory_access, events,
                   next_id, unconstrained, touches>>
    /\ UNCHANGED vkvars

\* AddForwardQSpan one word short
AddForwardQSpanShort == SpanSeq(frame.q_ptr, NumWordsCurvePoint - 1)

\* AddForwardQSpan running over the span of p
AddForwardQSpanP == SpanSeq(frame.p_ptr, NumWordsCurvePoint)

\* the span the stale entries are forwarded for before the read of q
AddForwardQSpan == SpanSeq(frame.q_ptr, NumWordsCurvePoint)

\* forward the stale entries of the Q span to the global trace list
AddForwardQ ==
    /\ pc = "add_forward_q"
    /\ LET r == ForwardLoop(local_memory_access, record_local_memory_access,
                            AddForwardQSpan)
       IN  /\ local_memory_access' = r.log
           /\ record_local_memory_access' = r.trace
    /\ pc' = "add_read_q"
    /\ UNCHANGED <<mem, clk, events, frame, entry, panic_msg, next_id, unconstrained,
                   touches>>
    /\ UNCHANGED vkvars

\* let (q_memory_records, q) = rt.mr_slice(q_ptr, num_words)
AddReadQ ==
    /\ pc = "add_read_q"
    /\ LET r == mr_slice(mem, local_memory_access, next_id, frame.q_ptr,
                         NumWordsCurvePoint, clk, unconstrained)
       IN  /\ mem' = r.mem
           /\ local_memory_access' = r.log
           /\ next_id' = r.next_id
           /\ frame' = [frame EXCEPT !.q = r.values, !.q_memory_records = r.records]
    /\ pc' = "add_drain_q"
    /\ UNCHANGED <<clk, record_local_memory_access, events, entry, panic_msg,
                   unconstrained, touches>>
    /\ UNCHANGED vkvars

\* AddDrainQSpan one word long
AddDrainQSpanLong == SpanSeq(frame.q_ptr, NumWordsCurvePoint + 1)

\* AddDrainQSpan one word short
AddDrainQSpanShort == SpanSeq(frame.q_ptr, NumWordsCurvePoint - 1)

\* the span the entries made by the read of q are drained for
AddDrainQSpan == SpanSeq(frame.q_ptr, NumWordsCurvePoint)

\* drain the entries the read made into ec_add_local_mem_access
AddDrainQ ==
    /\ pc = "add_drain_q"
    /\ LET r == DrainLoop(local_memory_access, <<>>, AddDrainQSpan)
       IN  /\ local_memory_access' = r.log
           /\ frame' = [frame EXCEPT !.local_mem_access = r.acc]
           /\ IF r.ok
              THEN pc' = "add_compute" /\ UNCHANGED panic_msg
              ELSE Panic("Expected local memory access")
    /\ UNCHANGED <<mem, clk, record_local_memory_access, events, entry, next_id,
                   unconstrained, touches>>
    /\ UNCHANGED vkvars

\* AddResultWords with q taken for both operands
AddResultWordsQQ(p, q) == to_words_le(ec_add(from_words_le(q), from_words_le(q)))

\* the words written to p_ptr: p + q, re-encoded
AddResultWords(p, q) == to_words_le(ec_add(from_words_le(p), from_words_le(q)))

\* AddWriteClk with the clock left as it is
AddWriteClkSame == clk

\* rt.clk += 1: the clock the write of p is recorded at
AddWriteClk == clk + 1

\* rt.clk += 1; result_words = (p_affine + q_affine).to_words_le()
AddCompute ==
    /\ pc = "add_compute"
    /\ clk' = AddWriteClk
    /\ frame' = [frame EXCEPT !.result_words = AddResultWords(frame.p, frame.q)]
    /\ pc' = "add_forward_p"
    /\ UNCHANGED <<mem, local_memory_access, record_local_memory_access, events, entry,
                   panic_msg, next_id, unconstrained, touches>>
    /\ UNCHANGED vkvars

\* AddDestPtr with the sum written over q
AddDestPtrQ == frame.q_ptr

\* the pointer of the span the sum is written to: addr = p_ptr + i * 4 in the
\* forward loop, the write and the drain loop
AddDestPtr == frame.p_ptr

\* forward the stale entries of the P span to the global trace list
AddForwardP ==
    /\ pc = "add_forward_p"
    /\ LET r == ForwardLoop(local_memory_access, record_local_memory_access,
                            SpanSeq(AddDestPtr, Len(frame.result_words)))
       IN  /\ local_memory_access' = r.log
           /\ record_local_memory_access' = r.trace
    /\ pc' = "add_write_p"
    /\ UNCHANGED <<mem, clk, events, frame, entry, panic_msg, next_id, unconstrained,
                   touches>>
    /\ UNCHANGED vkvars

\* let p_memory_records = rt.mw_slice(p_ptr, &result_words)
AddWriteP ==
    /\ pc = "add_write_p"
    /\ LET r == mw_slice(mem, local_memory_access, next_id, AddDestPtr,
                         frame.result_words, clk, unconstrained)
       IN  /\ mem' = r.mem
           /\ local_memory_access' = r.log
           /\ next_id' = r.next_id
           /\ frame' = [frame EXCEPT !.p_memory_records = r.records]
    /\ pc' = "add_drain_p"
    /\ UNCHANGED <<clk, record_local_memory_access, events, entry, panic_msg,
                   unconstrained, touches>>
    /\ UNCHANGED vkvars

\* AddDrainP putting the entries of the write in front of those of the read
AddDrainPFirst ==
    /\ pc = "add_drain_p"
    /\ LET r == DrainLoop(local_memory_access, <<>>,
                          SpanSeq(AddDestPtr, Len(frame.result_words)))
       IN  /\ local_memory_access' = r.log
           /\ frame' = [frame EXCEPT !.local_mem_access = r.acc \o @]
           /\ IF r.ok
              THEN pc' = "add_return" /\ UNCHANGED panic_msg
              ELSE Panic("Expected local memory access")
    /\ UNCHANGED <<mem, clk, record_local_memory_access, events, entry, next_id,
                   unconstrained, touches>>
    /\ UNCHANGED vkvars

\* drain the entries the write made into ec_add_local_mem_access
AddDrainP ==
    /\ pc = "add_drain_p"
    /\ LET r == DrainLoop(local_memory_access, frame.local_mem_access,
                          SpanSeq(AddDestPtr, Len(frame.result_words)))
       IN  /\ local_memory_access' = r.log
           /\ frame' = [frame EXCEPT !.local_mem_access = r.acc]
           /\ IF r.ok
              THEN pc' = "add_return" /\ UNCHANGED panic_msg
              ELSE Panic("Expected local memory access")
    /\ UNCHANGED <<mem, clk, record_local_memory_access, events, entry, next_id,
                   unconstrained, touches>>
    /\ UNCHANGED vkvars

\* EllipticCurveAddEvent with the clock read when the event is built
EllipticCurveAddEventClkNow ==
    [kind |-> "add", clk |-> clk,
     p_ptr |-> frame.p_ptr, p |-> frame.p,
     q_ptr |-> frame.q_ptr, q |-> frame.q,
     p_memory_records |-> frame.p_memory_records,
     q_memory_records |-> frame.q_memory_records,
     local_mem_access |-> frame.local_mem_access]

\* EllipticCurveAddEvent { .. }; lookup_id, shard and channel are identifiers the
\* context supplies and are left out of the three events
EllipticCurveAddEvent ==
    [kind |-> "add", clk |-> frame.start_clk,
     p_ptr |-> frame.p_ptr, p |-> frame.p,
     q_ptr |-> frame.q_ptr, q |-> frame.q,
     p_memory_records |-> frame.p_memory_records,
     q_memory_records |-> frame.q_memory_records,
     local_mem_access |-> frame.local_mem_access]

\* the event is returned to the interpreter
AddReturn ==
    /\ pc = "add_return"
    /\ events' = Append(events, EllipticCurveAddEvent)
    /\ pc' = "done"
    /\ UNCHANGED <<mem, clk, local_memory_access, record_local_memory_access, frame,
                   entry, panic_msg, next_id, unconstrained, touches>>
    /\ UNCHANGED vkvars

----------------------------------------------------------------------------
(* create_ec_double_event                                                  *)

\* the alignment check at the entry
DoubleAligned(arg1) == arg1 % 4 = 0

\* DoubleResultWords through the generic addition
DoubleResultWordsByAdd(p) == to_words_le(ec_add(from_words_le(p), from_words_le(p)))

\* the words written to p_ptr: 2p, re-encoded
DoubleResultWords(p) == to_words_le(ec_double(from_words_le(p)))

\* DoubleEnter reading p through the recording primitive
DoubleEnterRecorded(E, arg1) ==
    /\ pc = "idle"
    /\ entry' = Snapshot
    /\ IF DoubleAligned(arg1)
       THEN LET r == mr_slice(mem, local_memory_access, next_id, arg1,
                              NumWordsCurvePoint, clk, unconstrained)
            IN  /\ frame' = [op |-> "double", E |-> E, start_clk |-> clk,
                             p_ptr |-> arg1, p |-> r.values,
                             result_words |-> DoubleResultWords(r.values),
                             p_memory_records |-> <<>>,
                             local_mem_access |-> <<>>]
                /\ mem' = r.mem
                /\ local_memory_access' = r.log
                /\ next_id' = r.next_id
                /\ pc' = "double_forward_p"
                /\ UNCHANGED panic_msg
       ELSE /\ frame' = [op |-> "double", E |-> E, start_clk |-> clk, p_ptr |-> arg1]
            /\ Panic("explicit panic")
            /\ UNCHANGED <<mem, local_memory_access, next_id>>
    /\ UNCHANGED <<clk, record_local_memory_access, events, unconstrained, touches>>
    /\ UNCHANGED vkvars

\* let start_clk = rt.clk; the alignment check; p = rt.slice_unsafe(p_ptr, num_words);
\* result_words = E::ec_double(&p_affine).to_words_le()
DoubleEnter(E, arg1) ==
    /\ pc = "idle"
    /\ entry' = Snapshot
    /\ IF DoubleAligned(arg1)
       THEN /\ frame' = [op |-> "double", E |-> E, start_clk |-> clk, p_ptr |-> arg1,
                         p |-> slice_unsafe(mem, arg1, NumWordsCurvePoint),
                         result_words |->
                             DoubleResultWords(slice_unsafe(mem, arg1, NumWordsCurvePoint)),
                         p_memory_records |-> <<>>,
                         local_mem_access |-> <<>>]
            /\ pc' = "double_forward_p"
            /\ UNCHANGED panic_msg
       ELSE /\ frame' = [op |-> "double", E |-> E, start_clk |-> clk, p_ptr |-> arg1]
            /\ Panic("explicit panic")
    /\ UNCHANGED <<mem, clk, local_memory_access, record_local_memory_access, events,
                   next_id, unconstrained, touches>>
    /\ UNCHANGED vkvars

\* forward the stale entries of the P span to the global trace list
DoubleForwardP ==
    /\ pc = "double_forward_p"
    /\ LET r == ForwardLoop(local_memory_access, record_local_memory_access,
                            SpanSeq(frame.p_ptr, Len(frame.result_words)))
       IN  /\ local_memory_access' = r.log
           /\ record_local_memory_access' = r.trace
    /\ pc' = "double_write_p"
    /\ UNCHANGED <<mem, clk, events, frame, entry, panic_msg, next_id, unconstrained,
                   touches>>
    /\ UNCHANGED vkvars

\* let p_memory_records = rt.mw_slice(p_ptr, &result_words)
DoubleWriteP ==
    /\ pc = "double_write_p"
    /\ LET r == mw_slice(mem, local_memory_access, next_id, frame.p_ptr,
                         frame.result_words, clk, unconstrained)
       IN  /\ mem' = r.mem
           /\ local_memory_access' = r.log
           /\ next_id' = r.next_id
           /\ frame' = [frame EXCEPT !.p_memory_records = r.records]
    /\ pc' = "double_drain_p"
    /\ UNCHANGED <<clk, record_local_memory_access, events, entry, panic_msg,
                   unconstrained, touches>>
    /\ UNCHANGED vkvars

\* drain the entries the write made into ec_double_local_mem_access
DoubleDrainP ==
    /\ pc = "double_drain_p"
    /\ LET r == DrainLoop(local_memory_access, <<>>,
                          SpanSeq(frame.p_ptr, Len(frame.result_words)))
       IN  /\ local_memory_access' = r.log
           /\ frame' = [frame EXCEPT !.local_mem_access = r.acc]
           /\ IF r.ok
              THEN pc' = "double_return" /\ UNCHANGED panic_msg
              ELSE Panic("Expected local memory access")
    /\ UNCHANGED <<mem, clk, record_local_memory_access, events, entry, next_id,
                   unconstrained, touches>>
    /\ UNCHANGED vkvars

\* EllipticCurveDoubleEvent { .. }
EllipticCurveDoubleEvent ==
    [kind |-> "double", clk |-> frame.start_clk,
     p_ptr |-> frame.p_ptr, p |-> frame.p,
     p_memory_records |-> frame.p_memory_records,
     local_mem_access |-> frame.local_mem_access]

\* the event is returned to the interpreter
DoubleReturn ==
    /\ pc = "double_return"
    /\ events' = Append(events, EllipticCurveDoubleEvent)
    /\ pc' = "done"
    /\ UNCHANGED <<mem, clk, local_memory_access, record_local_memory_access, frame,
                   entry, panic_msg, next_id, unconstrained, touches>>
    /\ UNCHANGED vkvars

----------------------------------------------------------------------------
(* create_ec_decompress_event                                              *)

\* let num_words_field_element = num_limbs / 4
NumWordsFieldElement == NumLimbs \div 4

\* XPtr without the offset of the x coordinate
XPtrNoOffset(slice_ptr) == slice_ptr

\* the address of the first x word: slice_ptr + num_limbs
XPtr(slice_ptr) == slice_ptr + NumLimbs

\* the curve families the match on E::CURVE_TYPE has a decompression function for
SupportedCurve(E) == E \in {"Secp256k1", "Bls12381"}

\* let start_clk = rt.clk; the two assertions
DecompressEnter(E, slice_ptr, sign_bit) ==
    /\ pc = "idle"
    /\ entry' = Snapshot
    /\ frame' = [op |-> "decompress", E |-> E, start_clk |-> clk,
                 slice_ptr |-> slice_ptr, sign_bit |-> sign_bit,
                 x_vec |-> <<>>, x_memory_records |-> <<>>,
                 x_bytes |-> <<>>, x_bytes_be |-> <<>>,
                 decompressed_y_bytes |-> <<>>, y_words |-> <<>>,
                 y_memory_records |-> <<>>, local_mem_access |-> <<>>]
    /\ IF slice_ptr % 4 # 0 THEN Panic("slice_ptr must be 4-byte aligned")
       ELSE IF ~(sign_bit <= 1) THEN Panic("is_odd must be 0 or 1")
       ELSE pc' = "decompress_forward_x" /\ UNCHANGED panic_msg
    /\ UNCHANGED <<mem, clk, local_memory_access, record_local_memory_access, events,
                   next_id, unconstrained, touches>>
    /\ UNCHANGED vkvars

\* forward the stale entries of the x span to the global trace list
DecompressForwardX ==
    /\ pc = "decompress_forward_x"
    /\ LET r == ForwardLoop(local_memory_access, record_local_memory_access,
                            SpanSeq(XPtr(frame.slice_ptr), NumWordsFieldElement))
       IN  /\ local_memory_access' = r.log
           /\ record_local_memory_access' = r.trace
    /\ pc' = "decompress_read_x"
    /\ UNCHANGED <<mem, clk, events, frame, entry, panic_msg, next_id, unconstrained,
                   touches>>
    /\ UNCHANGED vkvars

\* let (x_memory_records, x_vec) = rt.mr_slice(slice_ptr + num_limbs, num_words_field_element)
DecompressReadX ==
    /\ pc = "decompress_read_x"
    /\ LET r == mr_slice(mem, local_memory_access, next_id, XPtr(frame.slice_ptr),
                         NumWordsFieldElement, clk, unconstrained)
       IN  /\ mem' = r.mem
           /\ local_memory_access' = r.log
           /\ next_id' = r.next_id
           /\ frame' = [frame EXCEPT !.x_vec = r.values, !.x_memory_records = r.records]
    /\ pc' = "decompress_drain_x"
    /\ UNCHANGED <<clk, record_local_memory_access, events, entry, panic_msg,
                   unconstrained, touches>>
    /\ UNCHANGED vkvars

\* drain the entries the read made into ec_decompress_local_mem_access
DecompressDrainX ==
    /\ pc = "decompress_drain_x"
    /\ LET r == DrainLoop(local_memory_access, <<>>,
                          SpanSeq(XPtr(frame.slice_ptr), NumWordsFieldElement))
       IN  /\ local_memory_access' = r.log
           /\ frame' = [frame EXCEPT !.local_mem_access = r.acc]
           /\ IF r.ok
              THEN pc' = "decompress_compute" /\ UNCHANGED panic_msg
              ELSE Panic("Expected local memory access")
    /\ UNCHANGED <<mem, clk, record_local_memory_access, events, entry, next_id,
                   unconstrained, touches>>
    /\ UNCHANGED vkvars

\* let mut x_bytes_be = x_bytes.clone(); x_bytes_be.reverse()
XBytesBE(x_bytes) == Reverse(x_bytes)

\* DecompressedYBytes without the resize
DecompressedYBytesNoResize(y) == to_bytes_le(y)

\* let mut decompressed_y_bytes = computed_point.y.to_bytes_le();
\* decompressed_y_bytes.resize(num_limbs, 0u8)
DecompressedYBytes(y) == Resize(to_bytes_le(y), NumLimbs)

\* x_bytes, x_bytes_be; the match on E::CURVE_TYPE; decompress_fn(&x_bytes_be, sign_bit);
\* decompressed_y_bytes and y_words.  A decompression function does not return
\* for an x that is on no point of the curve.
DecompressCompute ==
    /\ pc = "decompress_compute"
    /\ LET x_bytes    == words_to_bytes_le_vec(frame.x_vec)
           x_bytes_be == XBytesBE(x_bytes)
           point      == decompress_fn(x_bytes_be, frame.sign_bit)
           y_bytes    == DecompressedYBytes(point.y)
       IN  IF ~SupportedCurve(frame.E)
           THEN /\ Panic("Unsupported curve")
                /\ frame' = [frame EXCEPT !.x_bytes = x_bytes, !.x_bytes_be = x_bytes_be]
           ELSE IF ~IsOnCurveX(point.x)
           THEN /\ Panic("decompression failed")
                /\ frame' = [frame EXCEPT !.x_bytes = x_bytes, !.x_bytes_be = x_bytes_be]
           ELSE /\ frame' = [frame EXCEPT !.x_bytes = x_bytes,
                                          !.x_bytes_be = x_bytes_be,
                                          !.decompressed_y_bytes = y_bytes,
                                          !.y_words = bytes_to_words_le_vec(y_bytes)]
                /\ pc' = "decompress_forward_y"
                /\ UNCHANGED panic_msg
    /\ UNCHANGED <<mem, clk, local_memory_access, record_local_memory_access, events,
                   entry, next_id, unconstrained, touches>>
    /\ UNCHANGED vkvars

\* forward the stale entries of the y span to the global trace list
DecompressForwardY ==
    /\ pc = "decompress_forward_y"
    /\ LET r == ForwardLoop(local_memory_access, record_local_memory_access,
                            SpanSeq(frame.slice_ptr, Len(frame.y_words)))
       IN  /\ local_memory_access' = r.log
           /\ record_local_memory_access' = r.trace
    /\ pc' = "decompress_write_y"
    /\ UNCHANGED <<mem, clk, events, frame, entry, panic_msg, next_id, unconstrained,
                   touches>>
    /\ UNCHANGED vkvars

\* let y_memory_records = rt.mw_slice(slice_ptr, &y_words)
DecompressWriteY ==
    /\ pc = "decompress_write_y"
    /\ LET r == mw_slice(mem, local_memory_access, next_id, frame.slice_ptr,
                         frame.y_words, clk, unconstrained)
       IN  /\ mem' = r.mem
           /\ local_memory_access' = r.log
           /\ next_id' = r.next_id
           /\ frame' = [frame EXCEPT !.y_memory_records = r.records]
    /\ pc' = "decompress_drain_y"
    /\ UNCHANGED <<clk, record_local_memory_access, events, entry, panic_msg,
                   unconstrained, touches>>
    /\ UNCHANGED vkvars

\* drain the entries the write made into ec_decompress_local_mem_access
DecompressDrainY ==
    /\ pc = "decompress_drain_y"
    /\ LET r == DrainLoop(local_memory_access, frame.local_mem_access,
                          SpanSeq(frame.slice_ptr, Len(frame.y_words)))
       IN  /\ local_memory_access' = r.log
           /\ frame' = [frame EXCEPT !.local_mem_access = r.acc]
           /\ IF r.ok
              THEN pc' = "decompress_return" /\ UNCHANGED panic_msg
              ELSE Panic("Expected local memory access")
    /\ UNCHANGED <<mem, clk, record_local_memory_access, events, entry, next_id,
                   unconstrained, touches>>
    /\ UNCHANGED vkvars

\* EllipticCurveDecompressEvent { .. }
EllipticCurveDecompressEvent ==
    [kind |-> "decompress", clk |-> frame.start_clk,
     ptr |-> frame.slice_ptr, sign_bit |-> (frame.sign_bit # 0),
     x_bytes |-> frame.x_bytes,
     decompressed_y_bytes |-> frame.decompressed_y_bytes,
     x_memory_records |-> frame.x_memory_records,
     y_memory_records |-> frame.y_memory_records,
     local_mem_access |-> frame.local_mem_access]

\* the event is returned to the interpreter
DecompressReturn ==
    /\ pc = "decompress_return"
    /\ events' = Append(events, EllipticCurveDecompressEvent)
    /\ pc' = "done"
    /\ UNCHANGED <<mem, clk, local_memory_access, record_local_memory_access, frame,
                   entry, panic_msg, next_id, unconstrained, touches>>
    /\ UNCHANGED vkvars

----------------------------------------------------------------------------
Next ==
    \/ \E a \in TouchAddrs : TouchRead(a)
    \/ \E a \in StoreAddrs, v \in StoreValues : TouchWrite(a, v)
    \/ \E E \in CurveTypes, a1 \in PtrArgs, a2 \in PtrArgs : AddEnter(E, a1, a2)
    \/ AddForwardQ
    \/ AddReadQ
    \/ AddDrainQ
    \/ AddCompute
    \/ AddForwardP
    \/ AddWriteP
    \/ AddDrainP
    \/ AddReturn
    \/ \E E \in CurveTypes, a1 \in PtrArgs : DoubleEnter(E, a1)
    \/ DoubleForwardP
    \/ DoubleWriteP
    \/ DoubleDrainP
    \/ DoubleReturn
    \/ \E E \in CurveTypes, a1 \in PtrArgs, s \in SignArgs : DecompressEnter(E, a1, s)
    \/ DecompressForwardX
    \/ DecompressReadX
    \/ DecompressDrainX
    \/ DecompressCompute
    \/ DecompressForwardY
    \/ DecompressWriteY
    \/ DecompressDrainY
    \/ DecompressReturn

Spec == Init /\ [][Next]_vars

----------------------------------------------------------------------------
(* Several calls in a row                                                  *)

\* the number of syscalls one run of the interpreter issues
MaxCalls == 2

\* the pointers the calls of a sequence are issued with
SeqPtrs == {0, 8}

\* the event has been handed over and the interpreter goes on with the program
Resume ==
    /\ pc = "done"
    /\ Len(events) < MaxCalls
    /\ pc' = "idle"
    /\ UNCHANGED <<mem, clk, local_memory_access, record_local_memory_access, events,
                   frame, entry, panic_msg, next_id, unconstrained, touches>>
    /\ UNCHANGED vkvars

InitSeq == Init /\ unconstrained = FALSE

NextSeq ==
    \/ \E a \in TouchAddrs : TouchRead(a)
    \/ \E a \in StoreAddrs, v \in StoreValues : TouchWrite(a, v)
    \/ \E a1 \in SeqPtrs, a2 \in SeqPtrs : AddEnter("Secp256k1", a1, a2)
    \/ AddForwardQ
    \/ AddReadQ
    \/ AddDrainQ
    \/ AddCompute
    \/ AddForwardP
    \/ AddWriteP
    \/ AddDrainP
    \/ AddReturn
    \/ \E a1 \in SeqPtrs : DoubleEnter("Secp256k1", a1)
    \/ DoubleForwardP
    \/ DoubleWriteP
    \/ DoubleDrainP
    \/ DoubleReturn
    \/ \E a1 \in SeqPtrs : DecompressEnter("Secp256k1", a1, 1)
    \/ DecompressForwardX
    \/ DecompressReadX
    \/ DecompressDrainX
    \/ DecompressCompute
    \/ DecompressForwardY
    \/ DecompressWriteY
    \/ DecompressDrainY
    \/ DecompressReturn
    \/ Resume

SpecSeq == InitSeq /\ [][NextSeq]_vars

----------------------------------------------------------------------------
(* Vocabulary of the properties                                            *)

\* a constructor call has returned its event
Returned(op) == pc = "done" /\ frame.op = op
ReturnedAny == pc = "done"

\* the returned event
Ev == Last(events)

\* the values of n words of memory m from ptr on
WordsAt(m, ptr, n) == [i \in 1..n |-> m[ptr + (i - 1) * 4].value]

\* the new values a list of write records carries
RecordValues(rs) == [i \in 1..Len(rs) |-> rs[i].value]

\* the span the running call reads, and the span it writes, through the
\* recording primitives
ReadSpan ==
    IF frame.op = "add" THEN SpanSet(frame.q_ptr, NumWordsCurvePoint)
    ELSE IF frame.op = "decompress"
         THEN SpanSet(frame.slice_ptr + NumLimbs, NumLimbs \div 4)
         ELSE {}
WriteSpan ==
    IF frame.op = "decompress" THEN SpanSet(frame.slice_ptr, NumLimbs \div 4)
    ELSE SpanSet(frame.p_ptr, NumWordsCurvePoint)
Touched == ReadSpan \cup WriteSpan

\* an entry made by an access of the running call
Created(e) == e.id >= entry.next_id

\* the positions of a list holding an entry the call made for address a
CreatedAt(seq, a) == {i \in DOMAIN seq : seq[i].addr = a /\ Created(seq[i])}

\* the identities of the entries the call made for address a, wherever they are
CreatedIds(a) ==
    {Ev.local_mem_access[i].id : i \in CreatedAt(Ev.local_mem_access, a)}
    \cup {record_local_memory_access[i].id : i \in CreatedAt(record_local_memory_access, a)}
    \cup {local_memory_access[b].id :
            b \in {c \in DOMAIN local_memory_access :
                     c = a /\ Created(local_memory_access[c])}}

\* the number of recorded accesses of address a by the running call
Accesses(a) ==
    (IF a \in ReadSpan THEN 1 ELSE 0) + (IF a \in WriteSpan THEN 1 ELSE 0)

----------------------------------------------------------------------------
(* C1  Local-access completeness                                           *)

\* C1 as stated: after a returning call every address it read or wrote through
\* the recording primitives has exactly one entry made for it, found exactly once
\* in the event's list and the global trace list taken together.
C1_OneEntryPerAddress ==
    ReturnedAny =>
        \A a \in Touched :
            /\ Cardinality(CreatedIds(a)) = 1
            /\ Cardinality(CreatedAt(Ev.local_mem_access, a))
               + Cardinality(CreatedAt(record_local_memory_access, a)) = 1

\* C1 amended: after a returning call every recorded access of an address has
\* made exactly one entry (two for an address Add both reads and writes), each
\* entry made is exactly once in the event's list, and none is in the global
\* trace list or left in the ambient log.
C1_OneEntryPerAccess ==
    ReturnedAny =>
        /\ \A a \in Touched :
            /\ Cardinality(CreatedIds(a)) = Accesses(a)
            /\ Cardinality(CreatedAt(Ev.local_mem_access, a)) = Accesses(a)
            /\ CreatedAt(record_local_memory_access, a) = {}
            /\ a \notin DOMAIN local_memory_access
        /\ \A i \in DOMAIN Ev.local_mem_access :
            Created(Ev.local_mem_access[i]) /\ Ev.local_mem_access[i].addr \in Touched
        /\ next_id - entry.next_id = Len(Ev.local_mem_access)

\* an Add with overlapping spans (P at 0, Q at 8) returned after forwarding two
\* stale entries
C1_Witness ==
    /\ Returned("add")
    /\ frame.p_ptr = 0 /\ frame.q_ptr = 8
    /\ Len(record_local_memory_access) = 2

----------------------------------------------------------------------------
(* C2  Add correctness                                                     *)

\* C2: after a returning Add the words at the P span, and the new values of the
\* event's p_memory_records, are the encoding of decode(p) + decode(q), p being
\* the words of the P span before the call (the event's p) and q the words the
\* recorded read of the Q span returned (the event's q).
C2_AddCorrect ==
    Returned("add") =>
        LET p == WordsAt(entry.mem, frame.p_ptr, NumWordsCurvePoint)
            q == WordsAt(entry.mem, frame.q_ptr, NumWordsCurvePoint)
            sum == to_words_le(ec_add(from_words_le(p), from_words_le(q)))
        IN  /\ Ev.p = p
            /\ Ev.q = q
            /\ Ev.q = [i \in 1..Len(Ev.q_memory_records) |-> Ev.q_memory_records[i].value]
            /\ WordsAt(mem, frame.p_ptr, NumWordsCurvePoint) = sum
            /\ RecordValues(Ev.p_memory_records) = sum

\* P = (5, 344) at 0 and Q = (259, 6) at 16, untouched: P + Q = (848, 850)
C2_Witness ==
    /\ Returned("add")
    /\ Ev.p = <<5, 0, 344, 0>> /\ Ev.q = <<259, 0, 6, 0>>
    /\ WordsAt(mem, 0, 4) = <<848, 0, 850, 0>>

----------------------------------------------------------------------------
(* C3  Alignment rejection                                                 *)

\* the call was made with a pointer argument that is not 4-byte aligned
Misaligned ==
    \/ frame.op = "add" /\ (frame.p_ptr % 4 # 0 \/ frame.q_ptr % 4 # 0)
    \/ frame.op = "double" /\ frame.p_ptr % 4 # 0
    \/ frame.op = "decompress" /\ frame.slice_ptr % 4 # 0

\* memory, ambient log, global trace list and clock are as at the entry
AsAtEntry ==
    /\ mem = entry.mem
    /\ local_memory_access = entry.log
    /\ record_local_memory_access = entry.trace
    /\ clk = entry.clk

\* C3: a call with a misaligned pointer has panicked, with memory, log, trace and
\* clock as at its entry, and no event returned.
C3_AlignmentRejection ==
    Misaligned => pc = "panicked" /\ AsAtEntry /\ events = entry.events

\* an Add with aligned p_ptr and misaligned q_ptr panicked while the log held
\* stale entries
C3_Witness ==
    /\ pc = "panicked" /\ panic_msg = "explicit panic"
    /\ frame.op = "add" /\ frame.p_ptr % 4 = 0 /\ frame.q_ptr % 4 # 0
    /\ DOMAIN local_memory_access # {}

----------------------------------------------------------------------------
(* C4  Eager validation in Decompress                                      *)

\* C4 as stated: a Decompress that panicked on a precondition (alignment, sign
\* bit, curve family) did so at entry: with memory, log, trace and clock as at
\* its entry and no recorded read issued.
C4_EagerValidation ==
    (/\ pc = "panicked"
     /\ frame.op = "decompress"
     /\ panic_msg \in {"slice_ptr must be 4-byte aligned", "is_odd must be 0 or 1",
                       "Unsupported curve"})
    => AsAtEntry /\ frame.x_memory_records = <<>>

----------------------------------------------------------------------------
(* C5  Aliased operands                                                    *)

\* C5 as stated: an Add with p_ptr = q_ptr leaves at p_ptr the words Double
\* writes for the same point, the encoding of 2P.
C5_AliasedAddIsDouble ==
    (Returned("add") /\ frame.p_ptr = frame.q_ptr) =>
        WordsAt(mem, frame.p_ptr, NumWordsCurvePoint)
        = to_words_le(ec_double(from_words_le(Ev.p)))

----------------------------------------------------------------------------
(* C6  Decompress result                                                   *)

\* byte k (from 1) of the little-endian bytes of a word sequence
ByteOfWords(ws, k) == (ws[((k - 1) \div 4) + 1] \div (256 ^ ((k - 1) % 4))) % 256

\* C6: after a returning Decompress x_bytes is the little-endian bytes of the
\* words of [slice_ptr + num_limbs, +num_limbs/4 words) before the call, the
\* decompression function received their reversal, decompressed_y_bytes is the
\* little-endian y of the point for that x and sign bit, num_limbs bytes long,
\* and the words of [slice_ptr, +num_limbs/4 words) are its little-endian words.
C6_DecompressResult ==
    Returned("decompress") =>
        LET xw == WordsAt(entry.mem, frame.slice_ptr + NumLimbs, NumLimbs \div 4)
            yb == Ev.decompressed_y_bytes
            yw == WordsAt(mem, frame.slice_ptr, NumLimbs \div 4)
        IN  /\ Len(Ev.x_bytes) = NumLimbs
            /\ \A k \in 1..NumLimbs : Ev.x_bytes[k] = ByteOfWords(xw, k)
            /\ Len(frame.x_bytes_be) = NumLimbs
            /\ \A k \in 1..NumLimbs :
                   frame.x_bytes_be[k] = Ev.x_bytes[NumLimbs + 1 - k]
            /\ Len(yb) = NumLimbs
            /\ from_bytes_le(yb)
               = DecompressY(from_bytes_le(Ev.x_bytes), frame.sign_bit)
            /\ \A k \in 1..NumLimbs : yb[k] = ByteOfWords(yw, k)
            /\ RecordValues(Ev.y_memory_records) = yw
            /\ Len(Ev.x_memory_records) = NumLimbs \div 4

\* x = 259 at 16 with sign bit 1: y = 1013, two bytes padded to eight
C6_Witness ==
    /\ Returned("decompress")
    /\ frame.slice_ptr = 8 /\ frame.sign_bit = 1
    /\ Ev.x_bytes = <<3, 1, 0, 0, 0, 0, 0, 0>>
    /\ Ev.decompressed_y_bytes = <<245, 3, 0, 0, 0, 0, 0, 0>>
    /\ WordsAt(mem, 8, 2) = <<1013, 0>>

----------------------------------------------------------------------------
(* C7  Double result                                                       *)

\* C7: after a returning Double the words at the P span are the encoding of
\* double(decode(p)), p being the words there before the call and the event's p;
\* every memory word outside the span is unchanged.
C7_DoubleResult ==
    Returned("double") =>
        LET p == WordsAt(entry.mem, frame.p_ptr, NumWordsCurvePoint)
        IN  /\ Ev.p = p
            /\ WordsAt(mem, frame.p_ptr, NumWordsCurvePoint)
               = to_words_le(ec_double(from_words_le(p)))
            /\ \A a \in Addrs \ SpanSet(frame.p_ptr, NumWordsCurvePoint) :
                   mem[a] = entry.mem[a]

\* P = (5, 344) at 0, untouched: 2P = (597, 255)
C7_Witness ==
    /\ Returned("double")
    /\ Ev.p = <<5, 0, 344, 0>>
    /\ WordsAt(mem, 0, 4) = <<597, 0, 255, 0>>

----------------------------------------------------------------------------
(* C8  Fixed-shape records                                                 *)

\* C8: every Add event has num_words read records, num_words write records and
\* 2*num_words local-access entries; every Double event num_words write records
\* and num_words entries; every Decompress event num_limbs/4 read records,
\* num_limbs/4 write records and 2*(num_limbs/4) entries.
C8_FixedShape ==
    \A i \in DOMAIN events :
        LET e == events[i]
        IN  /\ e.kind = "add" =>
                /\ Len(e.q_memory_records) = NumWordsCurvePoint
                /\ Len(e.p_memory_records) = NumWordsCurvePoint
                /\ Len(e.local_mem_access) = 2 * NumWordsCurvePoint
            /\ e.kind = "double" =>
                /\ Len(e.p_memory_records) = NumWordsCurvePoint
                /\ Len(e.local_mem_access) = NumWordsCurvePoint
            /\ e.kind = "decompress" =>
                /\ Len(e.x_memory_records) = NumLimbs \div 4
                /\ Len(e.y_memory_records) = NumLimbs \div 4
                /\ Len(e.local_mem_access) = 2 * (NumLimbs \div 4)

\* a Decompress returned whose y has a single natural byte (y = 6), after the
\* log held a stale entry of its span
C8_Witness ==
    /\ Returned("decompress")
    /\ from_bytes_le(Ev.decompressed_y_bytes) < 256
    /\ entry.log # << >>
    /\ Len(Ev.local_mem_access) = 4

----------------------------------------------------------------------------
(* C9  Net effect on the ambient log                                       *)

\* C9: after a returning call the ambient log holds no entry for an address of
\* a span the call read or wrote, and every entry the call made is in the
\* returned event's list.
C9_NetEffectOnLog ==
    ReturnedAny =>
        /\ \A a \in Touched : a \notin DOMAIN local_memory_access
        /\ \A a \in DOMAIN local_memory_access : ~Created(local_memory_access[a])
        /\ \A i \in DOMAIN record_local_memory_access :
               ~Created(record_local_memory_access[i])
        /\ Cardinality({Ev.local_mem_access[i].id : i \in DOMAIN Ev.local_mem_access})
           = next_id - entry.next_id

\* a Double returned whose span held a stale entry at entry, another stale entry
\* staying in the log
C9_Witness ==
    /\ Returned("double")
    /\ frame.p_ptr = 0
    /\ 8 \in DOMAIN entry.log
    /\ DOMAIN local_memory_access = {20}

----------------------------------------------------------------------------
(* C10  Add leaves Q untouched                                             *)

\* C10 as stated: after a returning Add the words of the Q span equal their
\* values before the call.
C10_QSpanUnchanged ==
    Returned("add") =>
        WordsAt(mem, frame.q_ptr, NumWordsCurvePoint)
        = WordsAt(entry.mem, frame.q_ptr, NumWordsCurvePoint)

\* C10 amended: after a returning Add every memory word outside the P span, so
\* every word of the Q span that is not also in the P span, has the value it had
\* before the call.
C10_OutsidePUnchanged ==
    Returned("add") =>
        \A a \in Addrs \ SpanSet(frame.p_ptr, NumWordsCurvePoint) :
            mem[a].value = entry.mem[a].value

\* an Add with P at 0 and Q at 8 returned: the words at 8 and 12 are in both spans
\* and changed, the words at 16 and 20 kept their values
C10_Witness ==
    /\ Returned("add")
    /\ frame.p_ptr = 0 /\ frame.q_ptr = 8
    /\ WordsAt(mem, 8, 2) # WordsAt(entry.mem, 8, 2)
    /\ WordsAt(mem, 16, 2) = WordsAt(entry.mem, 16, 2)

----------------------------------------------------------------------------
(* Properties of runs of several calls                                     *)

\* the entries of the events returned so far, in the order of the events
RECURSIVE EventEntries(_)
EventEntries(evs) ==
    IF evs = <<>> THEN <<>>
    ELSE EventEntries(SubSeq(evs, 1, Len(evs) - 1)) \o Last(evs).local_mem_access

\* the entries the running call has drained and not yet returned in its event
InFlight ==
    IF pc \in {"idle", "done"} \/ "local_mem_access" \notin DOMAIN frame
    THEN <<>>
    ELSE frame.local_mem_access

\* every entry that has left the ambient log, once for each place it is held at
Places == record_local_memory_access \o EventEntries(events) \o InFlight

\* the identities of the entries of the ambient log
LogIds == {local_memory_access[a].id : a \in DOMAIN local_memory_access}

\* C11: over any sequence of calls and interpreter accesses every entry object
\* made so far is held at exactly one place: the ambient log, one position of the
\* global trace list, or one position of one call's local_mem_access list; none
\* is held twice and none is lost
C11_SingleOwnership ==
    LET held == Places
        ids  == {held[i].id : i \in DOMAIN held}
        log  == LogIds
    IN  /\ Cardinality(ids) = Len(held)
        /\ ids \cap log = {}
        /\ Cardinality(log) = Cardinality(DOMAIN local_memory_access)
        /\ ids \cup log = 0..(next_id - 1)

\* two events returned, entries forwarded to the global trace list, and an address
\* both events hold an entry of
C11_Witness ==
    /\ pc = "done"
    /\ Len(events) = 2
    /\ record_local_memory_access # <<>>
    /\ \E i \in DOMAIN events[1].local_mem_access,
          j \in DOMAIN events[2].local_mem_access :
          events[1].local_mem_access[i].addr = events[2].local_mem_access[j].addr

\* s is an initial part of t
IsPrefix(s, t) == Len(s) <= Len(t) /\ SubSeq(t, 1, Len(s)) = s

\* C12: over any sequence of calls the global trace list and the list of returned
\* events only grow at the end: every step keeps what they held, in place and in
\* order, and a step that returns an event appends the one event of the running
\* call behind the events of all calls issued before it
C12_AppendOnly ==
    [][/\ IsPrefix(record_local_memory_access, record_local_memory_access')
       /\ IsPrefix(events, events')
       /\ events' # events =>
             /\ Len(events') = Len(events) + 1
             /\ Len(events) = Len(entry.events)
             /\ Last(events').kind = frame.op
             /\ Last(events').clk = frame.start_clk]_vars

\* a second call has returned its event after forwarding entries behind those the
\* global trace list already held
C12_Witness ==
    /\ pc = "done"
    /\ Len(events) = 2
    /\ entry.trace # <<>>
    /\ Len(record_local_memory_access) > Len(entry.trace)

----------------------------------------------------------------------------
(* Properties of the steps of one call                                     *)

\* the span the drain loop the call stands before runs over
DrainSpan ==
    IF pc \in {"add_drain_q", "decompress_drain_x"} THEN ReadSpan
    ELSE IF pc \in {"add_drain_p", "double_drain_p", "decompress_drain_y"}
         THEN WriteSpan
         ELSE {}

\* C13: when a drain loop starts and the ambient log lacks an entry for an
\* address of its span, the call aborts with "Expected local memory access" and
\* no event is returned, then or later
C13_MissingEntryAbort ==
    [][/\ (\E a \in DrainSpan : a \notin DOMAIN local_memory_access) =>
             /\ pc' = "panicked"
             /\ panic_msg' = "Expected local memory access"
             /\ events' = events
       /\ pc = "panicked" => pc' = "panicked" /\ events' = events]_vars

\* a Double whose recorded write made no entries has aborted
C13_Witness ==
    /\ pc = "panicked"
    /\ panic_msg = "Expected local memory access"
    /\ frame.op = "double"
    /\ events = <<>>
    /\ \E a \in WriteSpan : a \notin DOMAIN local_memory_access

\* the addresses of the read span and of the write span, ascending
ReadSpanSeq ==
    IF frame.op = "add" THEN SpanSeq(frame.q_ptr, NumWordsCurvePoint)
    ELSE IF frame.op = "decompress"
         THEN SpanSeq(frame.slice_ptr + NumLimbs, NumLimbs \div 4)
         ELSE <<>>
WriteSpanSeq ==
    IF frame.op = "decompress" THEN SpanSeq(frame.slice_ptr, NumLimbs \div 4)
    ELSE SpanSeq(frame.p_ptr, NumWordsCurvePoint)

\* the entries the log held at the entry of the call for the addresses of addrs,
\* in the order of addrs
StaleEntries(addrs) ==
    LET present == SelectSeq(addrs, LAMBDA a : a \in DOMAIN entry.log)
    IN  [i \in 1..Len(present) |-> entry.log[present[i]]]

\* the stale entries of the read span, and those of the write span that are not
\* of the read span as well
StaleRead == StaleEntries(ReadSpanSeq)
StaleWrite == StaleEntries(SelectSeq(WriteSpanSeq, LAMBDA a : a \notin ReadSpan))

BeforeRead == pc \in {"add_read_q", "decompress_read_x"}
BeforeWrite == pc \in {"add_write_p", "double_write_p", "decompress_write_y"}
AfterWrite ==
    pc \in {"add_drain_p", "add_return", "double_drain_p", "double_return",
            "decompress_drain_y", "decompress_return", "done"}

\* C14: when a call stands before its recorded read or write of a span, the log
\* holds no entry for an address of that span, and the entries it held for them
\* at the entry of the call are at the end of the global trace list, unchanged
\* and in ascending order of address; the returned event holds none of them
C14_StaleForwarding ==
    /\ BeforeRead =>
          /\ ReadSpan \cap DOMAIN local_memory_access = {}
          /\ record_local_memory_access = entry.trace \o StaleRead
    /\ BeforeWrite =>
          /\ WriteSpan \cap DOMAIN local_memory_access = {}
          /\ record_local_memory_access = entry.trace \o StaleRead \o StaleWrite
    /\ AfterWrite => record_local_memory_access = entry.trace \o StaleRead \o StaleWrite
    /\ ReturnedAny =>
          \A i \in DOMAIN Ev.local_mem_access : Created(Ev.local_mem_access[i])

\* a returned call that forwarded two entries of one span, the entry of the lower
\* address being the one made later
C14_Witness ==
    /\ ReturnedAny
    /\ entry.trace = <<>>
    /\ Len(record_local_memory_access) = 2
    /\ record_local_memory_access[1].addr < record_local_memory_access[2].addr
    /\ record_local_memory_access[1].id > record_local_memory_access[2].id

\* C15: in every event an Add returns, every read record of q has the clock of
\* the entry as its timestamp and every write record of p the clock one later,
\* so each read is before each write; the write record of an address of both
\* spans has the read's timestamp as its previous timestamp
C15_ReadBeforeWrite ==
    Returned("add") =>
        /\ \A i \in DOMAIN Ev.q_memory_records, j \in DOMAIN Ev.p_memory_records :
              /\ Ev.q_memory_records[i].timestamp = entry.clk
              /\ Ev.p_memory_records[j].timestamp = entry.clk + 1
              /\ Ev.q_memory_records[i].timestamp < Ev.p_memory_records[j].timestamp
        /\ \A i \in 1..NumWordsCurvePoint, j \in 1..NumWordsCurvePoint :
              Ev.q_ptr + (i - 1) * 4 = Ev.p_ptr + (j - 1) * 4 =>
                  /\ Ev.p_memory_records[j].prev_timestamp =
                         Ev.q_memory_records[i].timestamp
                  /\ Ev.p_memory_records[j].prev_timestamp <
                         Ev.p_memory_records[j].timestamp

\* an Add of partly overlapping spans has returned its read and write records
C15_Witness ==
    /\ Returned("add")
    /\ Ev.p_ptr # Ev.q_ptr
    /\ ReadSpan \cap WriteSpan # {}
    /\ Len(Ev.q_memory_records) = NumWordsCurvePoint
    /\ Len(Ev.p_memory_records) = NumWordsCurvePoint

\* the read records and the write records the running call has so far
FrameReadRecords ==
    IF frame.op = "add" THEN frame.q_memory_records
    ELSE IF frame.op = "decompress" THEN frame.x_memory_records ELSE <<>>
FrameWriteRecords ==
    IF frame.op = "decompress" THEN frame.y_memory_records ELSE frame.p_memory_records

\* the addresses of the event's local_mem_access list as the list should have them
ListAddrs == ReadSpanSeq \o WriteSpanSeq

\* C16: in a call the write records exist only once the read records do and the
\* entries of the read are drained, and entries beyond those of the read are in
\* the call's list only once the write records exist; the returned event's list
\* holds the entries of the read span, ascending by address, then those of the
\* write span, ascending by address, in the order they were made; the i-th read
\* and write record is of the i-th address of its span
C16_StepAndListOrder ==
    /\ "local_mem_access" \in DOMAIN frame =>
          /\ FrameWriteRecords # <<>> =>
                /\ Len(FrameReadRecords) = Len(ReadSpanSeq)
                /\ Len(frame.local_mem_access) >= Len(ReadSpanSeq)
          /\ Len(frame.local_mem_access) > Len(ReadSpanSeq) =>
                Len(FrameWriteRecords) = Len(WriteSpanSeq)
    /\ ReturnedAny =>
          /\ Len(Ev.local_mem_access) = Len(ListAddrs)
          /\ \A i \in DOMAIN Ev.local_mem_access :
                Ev.local_mem_access[i].addr = ListAddrs[i]
          /\ \A i \in DOMAIN Ev.local_mem_access, j \in DOMAIN Ev.local_mem_access :
                i < j => Ev.local_mem_access[i].id < Ev.local_mem_access[j].id
          /\ \A i \in DOMAIN ReadSpanSeq :
                /\ FrameReadRecords[i].value = entry.mem[ReadSpanSeq[i]].value
                /\ FrameReadRecords[i].prev_timestamp =
                       entry.mem[ReadSpanSeq[i]].timestamp
          /\ \A i \in DOMAIN WriteSpanSeq :
                /\ FrameWriteRecords[i].value = mem[WriteSpanSeq[i]].value
                /\ FrameWriteRecords[i].prev_value = entry.mem[WriteSpanSeq[i]].value

\* a Decompress has returned: the entries of x, the higher addresses, are in front
\* of those of y
C16_Witness ==
    /\ Returned("decompress")
    /\ Len(Ev.local_mem_access) = 2 * NumWordsFieldElement
    /\ Ev.local_mem_access[1].addr > Last(Ev.local_mem_access).addr
    /\ Ev.x_memory_records = FrameReadRecords
    /\ Ev.y_memory_records = FrameWriteRecords

\* C17: the event a call returns has the clock of the context at the entry of
\* the call as its clk, for Add the clock before the advance, and when an Add has
\* returned the clock of the context is at least one above that at the entry
C17_StartingClock ==
    ReturnedAny =>
        /\ Ev.clk = entry.clk
        /\ Returned("add") => clk >= entry.clk + 1 /\ Ev.clk < clk

\* an Add has returned after the interpreter had advanced the clock
C17_Witness ==
    /\ Returned("add")
    /\ entry.clk > 1
    /\ clk = entry.clk + 1
    /\ Ev.kind = "add"

\* the addresses of the entries of a list are pairwise distinct
DistinctAddrs(es) ==
    \A i \in DOMAIN es, j \in DOMAIN es : i # j => es[i].addr # es[j].addr

\* C18: in a returned Decompress the span read (from slice_ptr + num_limbs) and
\* the span written (from slice_ptr) share no address, the entries of the event
\* are of these two spans, the words of x are in memory as they were at the
\* entry, and no two entries of the event have the same address; no two entries
\* of a Double event have the same address either
C18_DistinctAddresses ==
    /\ Returned("decompress") =>
          /\ SpanSet(Ev.ptr + NumLimbs, NumLimbs \div 4)
                \cap SpanSet(Ev.ptr, NumLimbs \div 4) = {}
          /\ {Ev.local_mem_access[i].addr : i \in DOMAIN Ev.local_mem_access}
                = SpanSet(Ev.ptr + NumLimbs, NumLimbs \div 4)
                    \cup SpanSet(Ev.ptr, NumLimbs \div 4)
          /\ WordsAt(mem, Ev.ptr + NumLimbs, NumLimbs \div 4)
                = WordsAt(entry.mem, Ev.ptr + NumLimbs, NumLimbs \div 4)
          /\ DistinctAddrs(Ev.local_mem_access)
    /\ Returned("double") => DistinctAddrs(Ev.local_mem_access)

\* a Decompress has returned having written a y that differs from the words it
\* found
C18_Witness ==
    /\ Returned("decompress")
    /\ WordsAt(mem, Ev.ptr, NumLimbs \div 4) # WordsAt(entry.mem, Ev.ptr, NumLimbs \div 4)
    /\ Len(Ev.local_mem_access) = 2 * (NumLimbs \div 4)

\* C19: when the recording primitives make an entry for every address they
\* access, every drain loop finds an entry for each address of its span, and no
\* call ends in the "Expected local memory access" abort, whatever entries the
\* log held at the entry and however the spans of an Add overlap
C19_AbortUnreachable ==
    ~unconstrained =>
        /\ DrainSpan \subseteq DOMAIN local_memory_access
        /\ panic_msg # "Expected local memory access"

\* an Add of overlapping spans has returned although the log held an entry for
\* an address of both spans at the entry
C19_Witness ==
    /\ ~unconstrained
    /\ Returned("add")
    /\ DOMAIN entry.log \cap ReadSpan \cap WriteSpan # {}
    /\ panic_msg = ""

\* the entries the running call has appended to the global trace list
Appended ==
    SubSeq(record_local_memory_access, Len(entry.trace) + 1,
           Len(record_local_memory_access))

\* C20: when a call has returned, the log holds the entries it held at the entry
\* for the addresses outside the spans the call read or wrote, unchanged, and no
\* others; the entries appended to the global trace list are, once each, the
\* entries the log held at the entry for addresses of the spans; at no step of a
\* call is an entry the call made itself in the global trace list
C20_LogAndTraceFrame ==
    /\ ReturnedAny =>
          /\ DOMAIN local_memory_access = DOMAIN entry.log \ Touched
          /\ \A a \in DOMAIN entry.log \ Touched :
                local_memory_access[a] = entry.log[a]
          /\ {Appended[i] : i \in DOMAIN Appended}
                = {entry.log[a] : a \in DOMAIN entry.log \cap Touched}
          /\ Len(Appended) = Cardinality(DOMAIN entry.log \cap Touched)
    /\ \A i \in DOMAIN record_local_memory_access :
          ~Created(record_local_memory_access[i])

\* a call has returned that found an entry of its spans and an entry of another
\* address in the log
C20_Witness ==
    /\ ReturnedAny
    /\ DOMAIN entry.log \cap Touched # {}
    /\ DOMAIN entry.log \ Touched # {}
    /\ Appended # <<>>

----------------------------------------------------------------------------
(* The clock in Double and Decompress                                      *)

\* C21: a Double or a Decompress leaves the clock of the context as it was at
\* the entry, at every step and when it has returned; the read records of x and
\* the write records of y of a Decompress all carry that clock; Double's read
\* of p changes neither memory, log nor the entries made, so the call makes
\* only the entries of its write, each write record has the timestamp the word
\* had at the entry as its previous timestamp, and the event has no read records
C21_ClockUnchanged ==
    /\ (frame.op \in {"double", "decompress"} /\ pc # "idle") => clk = entry.clk
    /\ Returned("decompress") =>
          /\ \A i \in DOMAIN Ev.x_memory_records :
                Ev.x_memory_records[i].timestamp = entry.clk
          /\ \A j \in DOMAIN Ev.y_memory_records :
                Ev.y_memory_records[j].timestamp = entry.clk
    /\ pc = "double_forward_p" =>
          /\ mem = entry.mem
          /\ local_memory_access = entry.log
          /\ next_id = entry.next_id
    /\ Returned("double") =>
          /\ next_id = entry.next_id + NumWordsCurvePoint
          /\ "q_memory_records" \notin DOMAIN Ev
          /\ Ev.p = WordsAt(entry.mem, Ev.p_ptr, NumWordsCurvePoint)
          /\ \A i \in DOMAIN Ev.p_memory_records :
                /\ Ev.p_memory_records[i].prev_timestamp =
                       entry.mem[Ev.p_ptr + (i - 1) * 4].timestamp
                /\ Ev.local_mem_access[i].initial_mem_access =
                       entry.mem[Ev.p_ptr + (i - 1) * 4]

\* a Decompress has returned, entered after the interpreter had advanced the
\* clock, with the records of its read and of its write
C21_Witness ==
    /\ Returned("decompress")
    /\ entry.clk > 1
    /\ clk = entry.clk
    /\ Ev.x_memory_records # <<>>
    /\ Ev.y_memory_records # <<>>
    /\ Ev.x_memory_records[1].timestamp = Ev.y_memory_records[1].timestamp

----------------------------------------------------------------------------
(* VerifyingKeyVariable::hash and observe_into of the recursion circuit    *)
(* (crates/recursion/circuit-v2/src/types.rs).  The field is scaled down   *)
(* to F_97, whose multiplicative group has a subgroup of order 2^5.        *)

\* chips of a verifying key
MaxChips == 2

\* sp1_recursion_core_v2::DIGEST_SIZE: the field elements of a digest
DIGEST_SIZE == 8

\* the order of the field C::F
FeltModulus == 97

\* TwoAdicField::TWO_ADICITY
TwoAdicity == 5

\* a generator of the subgroup of order 2^TwoAdicity
TwoAdicRoot == 28

\* 1 << k
RECURSIVE Shl1(_)
Shl1(k) == IF k = 0 THEN 1 ELSE 2 * Shl1(k - 1)

\* b^e in the field
RECURSIVE FeltPow(_, _)
FeltPow(b, e) == IF e = 0 THEN 1 ELSE (b * FeltPow(b, e - 1)) % FeltModulus

\* C::F::from_canonical_usize
from_canonical_usize(n) == n % FeltModulus

\* C::F::two_adic_generator(bits): a generator of the subgroup of order 2^bits
two_adic_generator(bits) == FeltPow(TwoAdicRoot, Shl1(TwoAdicity - bits))

\* the digests, program counters, domains and chips the keys are made of
Commitments ==
    {[i \in 1..DIGEST_SIZE |-> 10 + i], [i \in 1..DIGEST_SIZE |-> 40 - i]}
PcStarts == {50, 51}
LogNs == 0..3
Shifts == {1, 5}
ChipNames == {"Program", "Byte"}
Domains == [log_n : LogNs, shift : Shifts]
ChipInformation ==
    {<<name, d, [width |-> 1, height |-> Shl1(d.log_n)]>> :
        name \in ChipNames, d \in Domains}
VerifyingKeys ==
    [commitment : Commitments, pc_start : PcStarts,
     chip_information : UNION {[1..k -> ChipInformation] : k \in 0..MaxChips}]

\* self.chip_information.iter().map(|(_, domain, _)| domain)
prep_domains(self) ==
    [i \in 1..Len(self.chip_information) |-> self.chip_information[i][2]]

\* DomainInputs in the order the code computes the values: g before shift
DomainInputsAsComputed(domain) ==
    <<from_canonical_usize(domain.log_n),
      from_canonical_usize(Shl1(domain.log_n)),
      two_adic_generator(domain.log_n),
      domain.shift>>

\* the four pushes of the loop body for one domain
DomainInputs(domain) ==
    <<from_canonical_usize(domain.log_n),
      from_canonical_usize(Shl1(domain.log_n)),
      domain.shift,
      two_adic_generator(domain.log_n)>>

\* for domain in prep_domains { inputs.push(..); .. }
RECURSIVE PushDomains(_, _)
PushDomains(ins, domains) ==
    IF domains = <<>> THEN ins
    ELSE PushDomains(ins \o DomainInputs(Head(domains)), Tail(domains))

\* the vector hash builds: inputs.extend(self.commitment);
\* inputs.push(self.pc_start); the loop over the domains
HashInputs(self) ==
    PushDomains(self.commitment \o <<self.pc_start>>, prep_domains(self))

\* hash(&self, builder): SC::hash(builder, &inputs)
Hash ==
    /\ "hash" \notin vk_done
    /\ vk # NoKey
    /\ inputs' = HashInputs(vk)
    /\ vk_done' = vk_done \cup {"hash"}
    /\ UNCHANGED <<vk, challenger>>
    /\ UNCHANGED execvars

\* challenger.observe of a digest and of a field element
ObserveDigest(ch, digest) == ch \o digest
ObserveFelt(ch, felt) == Append(ch, felt)

\* observe_into(&self, builder, challenger)
ObserveInto ==
    /\ "observe_into" \notin vk_done
    /\ vk # NoKey
    /\ challenger' = ObserveFelt(ObserveDigest(challenger, vk.commitment), vk.pc_start)
    /\ vk_done' = vk_done \cup {"observe_into"}
    /\ UNCHANGED <<vk, inputs>>
    /\ UNCHANGED execvars

\* what the challenger has observed before the key
EarlierObservations == {<<>>, <<60>>}

InitVk ==
    /\ ExecInit
    /\ unconstrained = FALSE
    /\ vk \in VerifyingKeys
    /\ inputs = <<>>
    /\ challenger \in EarlierObservations
    /\ vk_done = {}

NextVk ==
    \/ Hash
    \/ ObserveInto

SpecVk == InitVk /\ [][NextVk]_vars

\* C22: the sequence hash hands to the hasher has DIGEST_SIZE + 1 + 4*n
\* elements for a key of n chips: the elements of the commitment, then pc_start,
\* then for the k-th chip, in the order of chip_information, log_n, 2^log_n,
\* shift and the generator of the subgroup of order 2^log_n; observe_into adds
\* to what the challenger has observed the commitment and behind it pc_start
C22_HashInputLayout ==
    /\ "hash" \in vk_done =>
          LET n == Len(vk.chip_information)
          IN  /\ Len(inputs) = DIGEST_SIZE + 1 + 4 * n
              /\ \A i \in 1..DIGEST_SIZE : inputs[i] = vk.commitment[i]
              /\ inputs[DIGEST_SIZE + 1] = vk.pc_start
              /\ \A k \in 1..n :
                    LET d == vk.chip_information[k][2]
                        b == DIGEST_SIZE + 1 + 4 * (k - 1)
                    IN  /\ inputs[b + 1] = d.log_n
                        /\ inputs[b + 2] = 2 ^ d.log_n
                        /\ inputs[b + 3] = d.shift
                        /\ inputs[b + 4] = two_adic_generator(d.log_n)
                        /\ FeltPow(inputs[b + 4], 2 ^ d.log_n) = 1
                        /\ \A e \in 1..(2 ^ d.log_n - 1) :
                              FeltPow(inputs[b + 4], e) # 1
    /\ "observe_into" \in vk_done =>
          LET m == Len(challenger)
          IN  /\ m >= DIGEST_SIZE + 1
              /\ SubSeq(challenger, 1, m - DIGEST_SIZE - 1) \in EarlierObservations
              /\ SubSeq(challenger, m - DIGEST_SIZE, m - 1) = vk.commitment
              /\ challenger[m] = vk.pc_start

\* the key of two chips of different domains has been hashed and observed, the
\* challenger having observed an element before
C22_Witness ==
    /\ vk_done = {"hash", "observe_into"}
    /\ Len(vk.chip_information) = 2
    /\ vk.chip_information[1][2].log_n = 3
    /\ vk.chip_information[2][2].log_n = 1
    /\ vk.chip_information[1][2].shift # two_adic_generator(3)
    /\ Len(inputs) = DIGEST_SIZE + 9
    /\ Len(challenger) = DIGEST_SIZE + 2

============================================================================
